---- MODULE Spec2Model ----
(***************************************************************************)
(* Traffic generator bot: the cron-driven Scheduler, the TrafficEngine     *)
(* that owns the puppeteer browser/page, the AdSimulator and the SIGINT    *)
(* handler of index.js.                                                    *)
(*                                                                         *)
(* Every `await` of the JavaScript source is a suspension point: an action *)
(* of the model is the synchronous code that runs between two awaits of    *)
(* one callback.  The outcome of an awaited call on the external browser   *)
(* surface (resolve / reject) is chosen when the call settles.             *)
(***************************************************************************)
EXTENDS Integers, Sequences, FiniteSets, TLC

\* ------------------------------------------------------------------ bounds
\* Number of cron firings considered (firing f launches browser f, page f).
MaxFirings == 2
\* Probabilities are multiples of 1/ProbScale; Math.random() is r/ProbScale.
ProbScale == 2
\* Longest anchor list a result page returns from page.$$('a').
MaxLinks == 2
\* The clock of the trigger runs over hours 0..MaxHour, minutes 0..MaxMinute
\* and seconds 0..MaxSecond; configured times are taken from the same ranges.
MaxHour == 11
MaxMinute == 1
MaxSecond == 1
\* Math.random() takes the values r/DrawScale, r in 0..DrawScale-1.
DrawScale == 4
\* Bounds passed to the draws are k/BoundScale, k in -MaxBound..MaxBound.
BoundScale == 2
MaxBound == 3
\* Option objects have 1..MaxOptions keys with weights 0..MaxWeight.
MaxOptions == 3
MaxWeight == 1
\* Pointer targets have coordinates k * TargetStep, k in 0..MaxTarget.
TargetStep == 50
MaxTarget == 2
\* Scroll distances are k * ScrollUnit, k in -MaxScroll..MaxScroll.
ScrollUnit == 50
MaxScroll == 5

Firings == 1..MaxFirings
NoHandle == 0

\* ------------------------------------------------------------ configuration
\* Characters are small naturals; a domain / href is a sequence of them.
\* config.trafficGeneration.targetDomains
targetDomains == << <<1>>, <<2>> >>
\* Destinations an anchor of the result page may have.
Hrefs == { <<0, 1>>, <<2, 0>>, <<0>> }

RECURSIVE SeqsUpTo(_, _)
SeqsUpTo(S, n) ==
    IF n = 0 THEN { <<>> }
    ELSE LET shorter == SeqsUpTo(S, n - 1)
         IN  shorter \cup { Append(s, x) : s \in { t \in shorter : Len(t) = n - 1 }, x \in S }

\* Results of page.$$('a'): the hrefs of the anchors in document order.
LinkLists == SeqsUpTo(Hrefs, MaxLinks)

\* config.scheduler.enabled, config.adSimulation.{enabled,viewProbability,clickProbability}
Configs ==
    [ schedEnabled : BOOLEAN, adEnabled : BOOLEAN,
      viewProbability : 0..ProbScale, clickProbability : 0..ProbScale ]

\* A result page whose second anchor leads to the first target domain and
\* which has no anchor for the second one.
SamplePage == << <<0>>, <<0, 1>> >>

\* Scheduling and ad simulation on, both gates able to go either way.
OpenGateConfigs ==
    { c \in Configs : /\ c.schedEnabled /\ c.adEnabled
                      /\ c.viewProbability = 1 /\ c.clickProbability = 1 }

VARIABLES
    config,        \* the immutable settings object (config.json)
    anchors,       \* the hrefs of the anchors of the search result page
    browser,       \* TrafficEngine.browser: NoHandle or the browser's id
    page,          \* TrafficEngine.page: NoHandle or the page's id
    browserState,  \* per browser: "none" | "open" | "closed"
    closeCalls,    \* per browser: number of close() calls issued on it
    pageState,     \* per page: "none" | "opened" | "configured" | "failed"
    pc,            \* per firing: the await the cron callback is suspended at
    domain,        \* per firing: clickTargetDomain's parameter
    closeTarget,   \* per firing: the browser its pending close() was called on
    steps,         \* per firing: starts and ends of the four steps of the callback
    out,           \* per firing: what its latest step wrote and called
    shutdown,      \* SIGINT handler: "running" | "closing" | "exited" | "crashed"
    sigHeld,       \* did the engine hold a browser still open when SIGINT arrived
    sigCalls,      \* number of close() calls the SIGINT handler issued
    schedule,      \* config.scheduler's daily start and end, as hours and minutes
    clock,         \* the wall clock instant the trigger is asked about
    fired,         \* does the registered trigger fire at that instant
    call,          \* the latest call of a utilities function: name, arguments, draw
    result,        \* what that call returned, as a fraction num/den
    antiDetection, \* config.antiDetection: enableMouseMovements, enableRandomScrolling
    motion,        \* the running call of simulateHumanMouseMovement / ...Scrolling
    surface,       \* the calls that call has issued on the page, in order
    bezierIn,      \* a start, an end and the four control-point offsets drawn
    curve          \* the latest result of generateBezierCurve, with its arguments

vars == << config, anchors, browser, page, browserState, closeCalls, pageState, pc,
           domain, closeTarget, steps, out, shutdown, sigHeld, sigCalls,
           schedule, clock, fired, call, result, antiDetection, motion, surface,
           bezierIn, curve >>

cronVars == << schedule, clock, fired >>
utilVars == << call, result >>
motionVars == << antiDetection, motion, surface >>
bezierVars == << bezierIn, curve >>
envVars == << config, anchors, cronVars, utilVars, motionVars, bezierVars >>
engineVars == << browser, page >>
sigVars == << shutdown, sigHeld, sigCalls >>

\* ------------------------------------------------------------------ helpers
\* entries: logger / activityLogger writes and calls issued on the browser
\* surface, in order; on: the browser or page the step's call went to;
\* clicked: the index of the anchor it clicked (0 = none); gates: the results
\* of the shouldPerformAction calls it made, in order; settled: how the
\* awaited browser call that resumed the step had settled ("" when the step
\* was resumed by the return of one of the program's own async functions).
Wrote(entries, on) ==
    [entries |-> entries, on |-> on, clicked |-> 0, gates |-> <<>>, settled |-> ""]
Resolved(w) == [w EXCEPT !.settled = "resolve"]
Rejected(w) == [w EXCEPT !.settled = "reject"]
Nothing == Wrote(<<>>, NoHandle)

Has(f, entry) == \E i \in 1..Len(out[f].entries) : out[f].entries[i] = entry

\* String.prototype.includes: d occurs in h as a contiguous substring.
Includes(h, d) ==
    \E i \in 1..(Len(h) - Len(d) + 1) : SubSeq(h, i, i + Len(d) - 1) = d

\* Array.prototype.find over link.href.includes(domain): the first match, 0 = undefined.
Find(ls, d) ==
    IF \E i \in 1..Len(ls) : Includes(ls[i], d)
    THEN CHOOSE i \in 1..Len(ls) :
            /\ Includes(ls[i], d)
            /\ \A j \in 1..(i - 1) : ~Includes(ls[j], d)
    ELSE 0

\* utilities.shouldPerformAction: Math.random() < probability.
shouldPerformAction(r, probability) == r < probability

\* Identifiers bound in adSimulator's module scope (its requires and its class).
AdSimulatorScope ==
    { "randomDelay", "shouldPerformAction", "logger", "activityLogger", "config", "AdSimulator" }

\* The event loop runs callbacks until the process has exited.
Running == shutdown \in {"running", "closing"}

InitFrom(cs, pages) ==
    /\ config \in cs
    /\ anchors \in pages
    /\ browser = NoHandle
    /\ page = NoHandle
    /\ browserState = [b \in Firings |-> "none"]
    /\ closeCalls = [b \in Firings |-> 0]
    /\ pageState = [p \in Firings |-> "none"]
    /\ pc = [f \in Firings |-> "idle"]
    /\ domain = [f \in Firings |-> <<>>]
    /\ closeTarget = [f \in Firings |-> NoHandle]
    /\ steps = [f \in Firings |-> <<>>]
    /\ out = [f \in Firings |-> Nothing]
    /\ shutdown = "running"
    /\ sigHeld = FALSE
    /\ sigCalls = 0

\* ------------------------------------------- Scheduler.getCronExpression
\* A JavaScript string is the sequence of its characters.
Digits == << "0", "1", "2", "3", "4", "5", "6", "7", "8", "9" >>
DigitValue(c) == (CHOOSE i \in 1..Len(Digits) : Digits[i] = c) - 1

\* The HH:MM form of the configuration: two decimal digits each.
TwoDigits(n) == << Digits[(n \div 10) + 1], Digits[(n % 10) + 1] >>
TimeOfDay(h, m) == TwoDigits(h) \o <<":">> \o TwoDigits(m)
dailyStartTime == TimeOfDay(schedule.startH, schedule.startM)
dailyEndTime == TimeOfDay(schedule.endH, schedule.endM)

\* String.prototype.split(sep) for a one-character separator.
RECURSIVE Split(_, _)
Split(str, sep) ==
    IF \A i \in 1..Len(str) : str[i] # sep THEN << str >>
    ELSE LET k == CHOOSE i \in 1..Len(str) :
                      str[i] = sep /\ \A j \in 1..(i - 1) : str[j] # sep
         IN  << SubSeq(str, 1, k - 1) >> \o Split(SubSeq(str, k + 1, Len(str)), sep)

\* The template with the end time's minute in the minute field.
getCronExpressionEndMinute ==
    <<"0", " ">> \o Split(dailyEndTime, ":")[2] \o <<" ">>
        \o Split(dailyStartTime, ":")[1] \o <<"-">> \o Split(dailyEndTime, ":")[1]
        \o <<" ", "*", " ", "*", " ", "*">>

\* scheduler.js:49-52  `0 ${start.split(':')[1]} ${start.split(':')[0]}-${end.split(':')[0]} * * *`
getCronExpression ==
    <<"0", " ">> \o Split(dailyStartTime, ":")[2] \o <<" ">>
        \o Split(dailyStartTime, ":")[1] \o <<"-">> \o Split(dailyEndTime, ":")[1]
        \o <<" ", "*", " ", "*", " ", "*">>

\* cron.schedule's reading of a field: decimal numbers, `a-b` ranges, `*`.
RECURSIVE ParseInt(_)
ParseInt(str) ==
    IF Len(str) = 0 THEN 0
    ELSE 10 * ParseInt(SubSeq(str, 1, Len(str) - 1)) + DigitValue(str[Len(str)])

FieldMatches(field, v) ==
    IF field = <<"*">> THEN TRUE
    ELSE IF \E i \in 1..Len(field) : field[i] = "-"
    THEN /\ ParseInt(Split(field, "-")[1]) <= v
         /\ v <= ParseInt(Split(field, "-")[2])
    ELSE ParseInt(field) = v

\* A six-field expression: second minute hour day-of-month month day-of-week.
\* The trigger fires at an instant of the clock on every date when the three
\* date fields match every value.
CronFires(expression, t) ==
    LET fields == Split(expression, " ")
    IN  /\ Len(fields) = 6
        /\ FieldMatches(fields[1], t.s)
        /\ FieldMatches(fields[2], t.m)
        /\ FieldMatches(fields[3], t.h)
        /\ \A i \in 4..6 : \A v \in 0..MaxHour : FieldMatches(fields[i], v)

Schedules ==
    [ startH : 0..MaxHour, startM : 0..MaxMinute, endH : 0..MaxHour, endM : 0..MaxMinute ]
Midnight == [h |-> 0, m |-> 0, s |-> 0]

\* The trigger is not looked at: the firings of Spec arrive as ticks.
CronIdle ==
    /\ schedule = [startH |-> 0, startM |-> 0, endH |-> 0, endM |-> 0]
    /\ clock = Midnight
    /\ fired = FALSE

\* ----------------------------------------------------------------- utilities
Draws == 0..(DrawScale - 1)
Floor(n, d) == n \div d
Ceil(n, d) == -((-n) \div d)

RECURSIVE Sum(_)
Sum(ws) == IF Len(ws) = 0 THEN 0 ELSE Sum(SubSeq(ws, 1, Len(ws) - 1)) + ws[Len(ws)]

\* utilities.js:78-83  the loop over Object.entries(options) from entry i on;
\* random is held as the numerator of a fraction over DrawScale.
RECURSIVE weightedLoop(_, _, _)
weightedLoop(ws, i, random) ==
    IF i > Len(ws) THEN 1
    ELSE IF random - ws[i] * DrawScale <= 0 THEN i
    ELSE weightedLoop(ws, i + 1, random - ws[i] * DrawScale)

\* utilities.js:73-87  weightedRandom(options): the weights in declaration
\* order, Math.random() = r/DrawScale; returns the position of the chosen key.
weightedRandom(ws, r) == weightedLoop(ws, 1, r * Sum(ws))

\* utilities.js:11-15  getRandomInt(min, max) with min = lo/BoundScale,
\* max = hi/BoundScale and Math.random() = r/DrawScale.
getRandomInt(lo, hi, r) ==
    LET min == Ceil(lo, BoundScale)
        max == Floor(hi, BoundScale)
    IN  Floor(r * (max - min + 1), DrawScale) + min

\* utilities.js:23-25  getRandomFloat(min, max), as the numerator of a
\* fraction over DrawScale * BoundScale.
getRandomFloat(lo, hi, r) == r * (hi - lo) + lo * DrawScale

WeightLists == SeqsUpTo(0..MaxWeight, MaxOptions) \ { <<>> }
Bounds == -MaxBound..MaxBound
NoCall == [fn |-> "none", options |-> <<>>, min |-> 0, max |-> 0, r |-> 0]
UtilIdle == call = NoCall /\ result = [num |-> 0, den |-> 1]

CallWeightedRandom(ws, r) ==
    /\ call' = [fn |-> "weightedRandom", options |-> ws, min |-> 0, max |-> 0, r |-> r]
    /\ result' = [num |-> weightedRandom(ws, r), den |-> 1]
    /\ UNCHANGED << config, anchors, cronVars, motionVars, bezierVars, engineVars, browserState,
                    closeCalls, pageState, pc, domain, closeTarget, steps, out, sigVars >>

CallGetRandomInt(lo, hi, r) ==
    /\ lo <= hi
    /\ call' = [fn |-> "getRandomInt", options |-> <<>>, min |-> lo, max |-> hi, r |-> r]
    /\ result' = [num |-> getRandomInt(lo, hi, r), den |-> 1]
    /\ UNCHANGED << config, anchors, cronVars, motionVars, bezierVars, engineVars, browserState,
                    closeCalls, pageState, pc, domain, closeTarget, steps, out, sigVars >>

CallGetRandomFloat(lo, hi, r) ==
    /\ lo <= hi
    /\ call' = [fn |-> "getRandomFloat", options |-> <<>>, min |-> lo, max |-> hi, r |-> r]
    /\ result' = [num |-> getRandomFloat(lo, hi, r), den |-> DrawScale * BoundScale]
    /\ UNCHANGED << config, anchors, cronVars, motionVars, bezierVars, engineVars, browserState,
                    closeCalls, pageState, pc, domain, closeTarget, steps, out, sigVars >>

\* ------------------------------------- AntiDetection: pointer and scroll
\* part_002:231  the length of one scroll chunk, in pixels.
ScrollChunk == 100
\* part_002:127  Math.max(10, Math.floor(distance / 10)).
MinSteps == 10
StepLength == 10

Coords == { k * TargetStep : k \in 0..MaxTarget }
Distances == { k * ScrollUnit : k \in (-MaxScroll)..MaxScroll }
Abs(n) == IF n < 0 THEN -n ELSE n

\* part_002:121-127  the number of steps of the path from (0, 0) to (x, y):
\* Math.floor(Math.sqrt(x^2 + y^2) / 10), at least 10.
PathSteps(x, y) ==
    LET k == CHOOSE j \in 0..(x + y) :
                 /\ (StepLength * j) * (StepLength * j) <= x * x + y * y
                 /\ x * x + y * y < (StepLength * (j + 1)) * (StepLength * (j + 1))
    IN  IF k > MinSteps THEN k ELSE MinSteps

\* The chunk count rounded down instead of up.
ScrollChunksFloor(distance) == Floor(Abs(distance), ScrollChunk)

\* part_002:231  Math.ceil(Math.abs(distance) / 100).
ScrollChunks(distance) == Ceil(Abs(distance), ScrollChunk)

\* Calls on the page.  A direct move goes to (a, b); a move along the path
\* goes to point a of the points 0..b; a scroll is by a/b pixels.
Move(x, y) == [op |-> "move", direct |-> TRUE, a |-> x, b |-> y]
PathMove(i, n) == [op |-> "move", direct |-> FALSE, a |-> i, b |-> n]
Scroll(distance) == [op |-> "scroll", direct |-> TRUE, a |-> distance, b |-> 1]
ChunkScroll(distance, chunks) == [op |-> "scroll", direct |-> FALSE, a |-> distance, b |-> chunks]

NoMotion ==
    [fn |-> "none", at |-> "idle", x |-> 0, y |-> 0, distance |-> 0, n |-> 0, i |-> 0,
     failed |-> FALSE]
Finished == motion.at \in {"idle", "returned", "raised"}
MotionIdle ==
    /\ antiDetection = [enableMouseMovements |-> TRUE, enableRandomScrolling |-> TRUE]
    /\ motion = NoMotion
    /\ surface = <<>>
MotionUnchanged ==
    UNCHANGED << config, anchors, cronVars, utilVars, bezierVars, antiDetection, engineVars,
                 browserState, closeCalls, pageState, pc, domain, closeTarget, steps,
                 out, sigVars >>

\* part_002:110-134, 144  simulateHumanMouseMovement(page, x, y) up to its
\* first await: the direct move when disabled, else the move to point 0.
MouseMovementCall(x, y) ==
    /\ Finished
    /\ IF ~antiDetection.enableMouseMovements
       THEN /\ motion' = [NoMotion EXCEPT !.fn = "mouse", !.at = "direct", !.x = x, !.y = y]
            /\ surface' = << Move(x, y) >>
       ELSE /\ motion' = [NoMotion EXCEPT !.fn = "mouse", !.at = "move", !.x = x, !.y = y,
                                         !.n = PathSteps(x, y)]
            /\ surface' = << PathMove(0, PathSteps(x, y)) >>
    /\ MotionUnchanged

\* part_002:144-156  the move to a point resolved: the delay is drawn and awaited.
PathMoveResolve ==
    /\ motion.fn = "mouse" /\ motion.at = "move"
    /\ motion' = [motion EXCEPT !.at = "delay"]
    /\ UNCHANGED surface
    /\ MotionUnchanged

\* part_002:160-163  the move to a point rejected: logged, then the direct
\* move to the target is issued from inside the catch.
PathMoveReject ==
    /\ motion.fn = "mouse" /\ motion.at = "move"
    /\ motion' = [motion EXCEPT !.at = "fallback", !.failed = TRUE]
    /\ surface' = Append(surface, Move(motion.x, motion.y))
    /\ MotionUnchanged

\* part_002:137-159  the delay elapsed: the next point, or the end of the loop.
PathDelayResolve ==
    /\ motion.fn = "mouse" /\ motion.at = "delay"
    /\ IF motion.i + 1 < motion.n + 1
       THEN /\ motion' = [motion EXCEPT !.at = "move", !.i = @ + 1]
            /\ surface' = Append(surface, PathMove(motion.i + 1, motion.n))
       ELSE /\ motion' = [motion EXCEPT !.at = "returned"]
            /\ UNCHANGED surface
    /\ MotionUnchanged

\* part_002:112-113, 222-223 and 163-164  an awaited direct call resolved.
DirectResolve ==
    /\ motion.at \in {"direct", "fallback"}
    /\ motion' = [motion EXCEPT !.at = "returned"]
    /\ UNCHANGED surface
    /\ MotionUnchanged

\* part_002:112, 222 and 163  an awaited direct call rejected: nothing
\* catches it, the caller's await rejects.
DirectReject ==
    /\ motion.at \in {"direct", "fallback"}
    /\ motion' = [motion EXCEPT !.at = "raised"]
    /\ UNCHANGED surface
    /\ MotionUnchanged

\* part_002:220-240  simulateHumanScrolling(page, distance) up to its first
\* await: the direct scroll when disabled, else the first chunk, if any.
ScrollingCall(distance) ==
    /\ Finished
    /\ IF ~antiDetection.enableRandomScrolling
       THEN /\ motion' = [NoMotion EXCEPT !.fn = "scroll", !.at = "direct", !.distance = distance]
            /\ surface' = << Scroll(distance) >>
       ELSE IF ScrollChunks(distance) = 0
       THEN /\ motion' = [NoMotion EXCEPT !.fn = "scroll", !.at = "returned", !.distance = distance]
            /\ surface' = << >>
       ELSE /\ motion' = [NoMotion EXCEPT !.fn = "scroll", !.at = "scroll", !.distance = distance,
                                         !.n = ScrollChunks(distance)]
            /\ surface' = << ChunkScroll(distance, ScrollChunks(distance)) >>
    /\ MotionUnchanged

\* part_002:240-241  the chunk's scroll resolved: the delay is awaited.
ChunkScrollResolve ==
    /\ motion.fn = "scroll" /\ motion.at = "scroll"
    /\ motion' = [motion EXCEPT !.at = "delay"]
    /\ UNCHANGED surface
    /\ MotionUnchanged

\* part_002:245-247  the chunk's scroll rejected: logged, and the call returns.
ChunkScrollReject ==
    /\ motion.fn = "scroll" /\ motion.at = "scroll"
    /\ motion' = [motion EXCEPT !.at = "returned", !.failed = TRUE]
    /\ UNCHANGED surface
    /\ MotionUnchanged

\* part_002:234-244  the delay elapsed: the next chunk, or the end of the loop.
ScrollDelayResolve ==
    /\ motion.fn = "scroll" /\ motion.at = "delay"
    /\ IF motion.i + 1 < motion.n
       THEN /\ motion' = [motion EXCEPT !.at = "scroll", !.i = @ + 1]
            /\ surface' = Append(surface, ChunkScroll(motion.distance, motion.n))
       ELSE /\ motion' = [motion EXCEPT !.at = "returned"]
            /\ UNCHANGED surface
    /\ MotionUnchanged

\* --------------------------------------- AntiDetection.generateBezierCurve
\* part_002:179-182  getRandomInt(-30, 30).
JitterRange == 30
Jitters == { -JitterRange, 0, JitterRange }

\* part_002:179-199  the point for i of steps, t = i / steps (count is the
\* steps argument): both coordinates as numerators over den = 10 * count^3.
\* c1 and c2 are ten times the control coordinates, which lie at 0.3 and 0.7
\* of the way in x, 0.1 and 0.9 in y, each moved by its own offset j.
BezierPoint(startX, startY, endX, endY, count, j, i) ==
    LET u == count - i
        c1x == 10 * startX + 3 * (endX - startX) + 10 * j[1]
        c1y == 10 * startY + 1 * (endY - startY) + 10 * j[2]
        c2x == 10 * startX + 7 * (endX - startX) + 10 * j[3]
        c2y == 10 * startY + 9 * (endY - startY) + 10 * j[4]
    IN  [ x |-> 10 * u * u * u * startX + 3 * u * u * i * c1x
                  + 3 * u * i * i * c2x + 10 * i * i * i * endX,
          y |-> 10 * u * u * u * startY + 3 * u * u * i * c1y
                  + 3 * u * i * i * c2y + 10 * i * i * i * endY,
          den |-> 10 * count * count * count ]

\* The loop stopping before i = steps.
generateBezierCurveOpenEnded(startX, startY, endX, endY, count, j) ==
    [ k \in 1..count |-> BezierPoint(startX, startY, endX, endY, count, j, k - 1) ]

\* part_002:176-203  generateBezierCurve: the points for i = 0..steps.
generateBezierCurve(startX, startY, endX, endY, count, j) ==
    [ k \in 1..(count + 1) |-> BezierPoint(startX, startY, endX, endY, count, j, k - 1) ]

\* Step counts a caller may pass.
StepCounts == { PathSteps(x, y) : x, y \in Coords } \cup { 1 }
BezierInputs ==
    [ startX : Coords, startY : Coords, endX : Coords, endY : Coords,
      j : Jitters \X Jitters \X Jitters \X Jitters ]
NoCurve ==
    [ by |-> "none", startX |-> 0, startY |-> 0, endX |-> 0, endY |-> 0, steps |-> 0,
      points |-> <<>> ]
BezierIdle ==
    /\ bezierIn = [ startX |-> 0, startY |-> 0, endX |-> 0, endY |-> 0, j |-> <<0, 0, 0, 0>> ]
    /\ curve = NoCurve
BezierUnchanged ==
    UNCHANGED << config, anchors, cronVars, utilVars, motionVars, bezierIn, engineVars,
                 browserState, closeCalls, pageState, pc, domain, closeTarget, steps,
                 out, sigVars >>

\* part_002:117-134  simulateHumanMouseMovement builds its path: the current
\* position is taken to be (0, 0), the step count follows from the distance.
MouseMovementPath ==
    /\ curve = NoCurve
    /\ curve' = [ by |-> "simulateHumanMouseMovement",
                  startX |-> 0, startY |-> 0,
                  endX |-> bezierIn.endX, endY |-> bezierIn.endY,
                  steps |-> PathSteps(bezierIn.endX, bezierIn.endY),
                  points |-> generateBezierCurve(0, 0, bezierIn.endX, bezierIn.endY,
                                 PathSteps(bezierIn.endX, bezierIn.endY), bezierIn.j) ]
    /\ BezierUnchanged

\* part_002:176-203  generateBezierCurve called with a start and a step
\* count of the caller's choosing.
GenerateBezierCurveCall(n) ==
    /\ curve = NoCurve
    /\ curve' = [ by |-> "caller",
                  startX |-> bezierIn.startX, startY |-> bezierIn.startY,
                  endX |-> bezierIn.endX, endY |-> bezierIn.endY,
                  steps |-> n,
                  points |-> generateBezierCurve(bezierIn.startX, bezierIn.startY,
                                 bezierIn.endX, bezierIn.endY, n, bezierIn.j) ]
    /\ BezierUnchanged

Init ==
    InitFrom(OpenGateConfigs, {SamplePage}) /\ CronIdle /\ UtilIdle /\ MotionIdle /\ BezierIdle
InitConfigs ==
    InitFrom(Configs, LinkLists) /\ CronIdle /\ UtilIdle /\ MotionIdle /\ BezierIdle
InitUtil ==
    InitFrom(OpenGateConfigs, {SamplePage}) /\ CronIdle /\ UtilIdle /\ MotionIdle /\ BezierIdle
InitBezier ==
    /\ InitFrom(OpenGateConfigs, {SamplePage}) /\ CronIdle /\ UtilIdle /\ MotionIdle
    /\ bezierIn \in BezierInputs
    /\ curve = NoCurve
InitMotion ==
    /\ BezierIdle
    /\ InitFrom(OpenGateConfigs, {SamplePage}) /\ CronIdle /\ UtilIdle
    /\ antiDetection \in [enableMouseMovements : BOOLEAN, enableRandomScrolling : BOOLEAN]
    /\ motion = NoMotion
    /\ surface = <<>>

\* scheduler.js:22-23  start() has registered the derived expression.
InitCron ==
    /\ InitFrom(OpenGateConfigs, {SamplePage})
    /\ schedule \in Schedules
    /\ clock = Midnight
    /\ fired = CronFires(getCronExpression, Midnight)
    /\ UtilIdle
    /\ MotionIdle
    /\ BezierIdle

\* The clock moves on by one second; the trigger decides about the new instant.
ClockTick ==
    /\ clock # [h |-> MaxHour, m |-> MaxMinute, s |-> MaxSecond]
    /\ clock' = IF clock.s < MaxSecond THEN [clock EXCEPT !.s = @ + 1]
                ELSE IF clock.m < MaxMinute THEN [clock EXCEPT !.s = 0, !.m = @ + 1]
                ELSE [h |-> clock.h + 1, m |-> 0, s |-> 0]
    /\ fired' = CronFires(getCronExpression, clock')
    /\ UNCHANGED << config, anchors, schedule, utilVars, motionVars, bezierVars, engineVars,
                    browserState,
                    closeCalls, pageState, pc, domain, closeTarget, steps, out, sigVars >>

\* ---------------------------------------------------------------- Scheduler
\* start() registering its trigger whatever config.scheduler.enabled says.
CronTickUnconditional(f) ==
    /\ Running
    /\ pc[f] = "idle"
    /\ f > 1 => pc[f - 1] # "idle"
    /\ pc' = [pc EXCEPT ![f] = "launch"]
    /\ steps' = [steps EXCEPT ![f] = Append(@, "launchBrowser:start")]
    /\ out' = [out EXCEPT ![f] = Wrote(<<"launch">>, NoHandle)]
    /\ UNCHANGED << envVars, engineVars, browserState, closeCalls, pageState,
                    domain, closeTarget, sigVars >>

\* scheduler.js:21-25  the cron callback starts: logs, calls launchBrowser,
\* which calls puppeteer.launch and suspends.  Ticks arrive in order; nothing
\* keeps a tick from arriving while an earlier firing is still in flight.
CronTick(f) ==
    /\ Running
    /\ config.schedEnabled
    /\ pc[f] = "idle"
    /\ f > 1 => pc[f - 1] # "idle"
    /\ pc' = [pc EXCEPT ![f] = "launch"]
    /\ steps' = [steps EXCEPT ![f] = Append(@, "launchBrowser:start")]
    /\ out' = [out EXCEPT ![f] = Wrote(<<"launch">>, NoHandle)]
    /\ UNCHANGED << envVars, engineVars, browserState, closeCalls, pageState,
                    domain, closeTarget, sigVars >>

\* ------------------------------------------------------------ TrafficEngine
\* trafficEngine.js:23-28  puppeteer.launch resolved: this.browser is assigned,
\* this.browser.newPage() is called.
LaunchResolve(f) ==
    /\ Running
    /\ pc[f] = "launch"
    /\ browser' = f
    /\ browserState' = [browserState EXCEPT ![f] = "open"]
    /\ pc' = [pc EXCEPT ![f] = "newPage"]
    /\ out' = [out EXCEPT ![f] = Resolved(Wrote(<<"newPage">>, f))]
    /\ UNCHANGED << envVars, page, closeCalls, pageState, domain, closeTarget,
                    steps, sigVars >>

\* trafficEngine.js:31-34  the catch of launchBrowser: log and re-throw.  The
\* cron callback has no handler, so the firing ends here.
LaunchBrowserThrows(f, entries) ==
    /\ pc' = [pc EXCEPT ![f] = "aborted"]
    /\ steps' = [steps EXCEPT ![f] = Append(@, "launchBrowser:throw")]
    /\ out' = [out EXCEPT ![f] = Rejected(Wrote(entries \o <<"error:launchBrowser">>, NoHandle))]

LaunchReject(f) ==
    /\ Running
    /\ pc[f] = "launch"
    /\ LaunchBrowserThrows(f, <<>>)
    /\ UNCHANGED << envVars, engineVars, browserState, closeCalls, pageState,
                    domain, closeTarget, sigVars >>

\* trafficEngine.js:28-29  newPage resolved: this.page is assigned and
\* setupBrowserProfile(this.browser, this.page) starts with page.setUserAgent.
NewPageResolve(f) ==
    /\ Running
    /\ pc[f] = "newPage"
    /\ browserState[f] = "open"
    /\ page' = f
    /\ pageState' = [pageState EXCEPT ![f] = "opened"]
    /\ pc' = [pc EXCEPT ![f] = "setUserAgent"]
    /\ out' = [out EXCEPT ![f] = Resolved(Wrote(<<"setUserAgent">>, f))]
    /\ UNCHANGED << envVars, browser, browserState, closeCalls, domain,
                    closeTarget, steps, sigVars >>

NewPageReject(f) ==
    /\ Running
    /\ pc[f] = "newPage"
    /\ LaunchBrowserThrows(f, <<>>)
    /\ UNCHANGED << envVars, engineVars, browserState, closeCalls, pageState,
                    domain, closeTarget, sigVars >>

\* ------------------------------------------------------------ AntiDetection
\* part_002:22, 25, 47  the three awaited page calls of setupBrowserProfile.
SetupSteps == <<"setUserAgent", "setExtraHTTPHeaders", "evaluateOnNewDocument">>
SetupIndex(step) == CHOOSE i \in 1..Len(SetupSteps) : SetupSteps[i] = step
InSetup(f) == \E i \in 1..Len(SetupSteps) : pc[f] = SetupSteps[i]

\* part_002:22-47  one of the first two awaited page calls resolved; the next
\* one is issued on the same page.
SetupStepResolve(f) ==
    /\ Running
    /\ InSetup(f)
    /\ SetupIndex(pc[f]) < Len(SetupSteps)
    /\ pc' = [pc EXCEPT ![f] = SetupSteps[SetupIndex(pc[f]) + 1]]
    /\ out' = [out EXCEPT ![f] = Resolved(Wrote(<<SetupSteps[SetupIndex(pc[f]) + 1]>>, f))]
    /\ UNCHANGED << envVars, engineVars, browserState, closeCalls, pageState,
                    domain, closeTarget, steps, sigVars >>

\* part_002:47-89 and trafficEngine.js:30  evaluateOnNewDocument resolved: the
\* identity is configured, launchBrowser returns.
SetupProfileResolve(f) ==
    /\ Running
    /\ pc[f] = SetupSteps[Len(SetupSteps)]
    /\ pageState' = [pageState EXCEPT ![f] = "configured"]
    /\ pc' = [pc EXCEPT ![f] = "launched"]
    /\ steps' = [steps EXCEPT ![f] = Append(@, "launchBrowser:end")]
    /\ out' = [out EXCEPT ![f] = Resolved(Wrote(<<"info:launched">>, NoHandle))]
    /\ UNCHANGED << envVars, engineVars, browserState, closeCalls, domain,
                    closeTarget, sigVars >>

\* part_002:90-93 and trafficEngine.js:31-34  any awaited call of the setup
\* rejected: logged, re-thrown, logged again by launchBrowser and re-thrown.
SetupStepReject(f) ==
    /\ Running
    /\ InSetup(f)
    /\ pageState' = [pageState EXCEPT ![f] = "failed"]
    /\ LaunchBrowserThrows(f, <<"error:setupBrowserProfile">>)
    /\ UNCHANGED << envVars, engineVars, browserState, closeCalls, domain,
                    closeTarget, sigVars >>

\* ------------------------------------------- TrafficEngine.generateTraffic
\* scheduler.js:25-26 and trafficEngine.js:52-54  launchBrowser's await
\* resumes; generateTraffic builds the search URL and calls this.page.goto.
GenerateTrafficCall(f) ==
    /\ Running
    /\ pc[f] = "launched"
    /\ pc' = [pc EXCEPT ![f] = "goto"]
    /\ steps' = [steps EXCEPT ![f] = Append(@, "generateTraffic:start")]
    /\ out' = [out EXCEPT ![f] = Wrote(<<"goto">>, page)]
    /\ UNCHANGED << envVars, engineVars, browserState, closeCalls, pageState,
                    domain, closeTarget, sigVars >>

\* trafficEngine.js:55-60 and 72  navigation settled: the search is recorded,
\* a target domain is drawn, clickTargetDomain queries this.page for anchors.
GotoResolve(f, d) ==
    /\ Running
    /\ pc[f] = "goto"
    /\ domain' = [domain EXCEPT ![f] = targetDomains[d]]
    /\ pc' = [pc EXCEPT ![f] = "query"]
    /\ out' = [out EXCEPT ![f] = Resolved(Wrote(<<"SEARCH", "query">>, page))]
    /\ UNCHANGED << envVars, engineVars, browserState, closeCalls, pageState,
                    closeTarget, steps, sigVars >>

\* generateTraffic has returned (normally, always): the locals of
\* clickTargetDomain are gone and the scheduler's await is about to resume.
GenerateTrafficReturns(f, w) ==
    /\ pc' = [pc EXCEPT ![f] = "genDone"]
    /\ steps' = [steps EXCEPT ![f] = Append(@, "generateTraffic:end")]
    /\ out' = [out EXCEPT ![f] = w]
    /\ domain' = [domain EXCEPT ![f] = <<>>]

\* generateTraffic's catch re-throwing the way launchBrowser's does: the
\* rejection reaches the cron callback and ends the firing.
GotoRejectRethrown(f) ==
    /\ Running
    /\ pc[f] = "goto"
    /\ pc' = [pc EXCEPT ![f] = "aborted"]
    /\ steps' = [steps EXCEPT ![f] = Append(@, "generateTraffic:throw")]
    /\ out' = [out EXCEPT ![f] = Rejected(Wrote(<<"error:generateTraffic">>, NoHandle))]
    /\ UNCHANGED << envVars, engineVars, browserState, closeCalls, pageState,
                    domain, closeTarget, sigVars >>

\* The try/catch around the navigation alone: the failure is logged and the
\* session goes on to choose a target and scan the page.
GotoRejectContinues(f) ==
    /\ Running
    /\ pc[f] = "goto"
    /\ domain' = [domain EXCEPT ![f] = targetDomains[1]]
    /\ pc' = [pc EXCEPT ![f] = "query"]
    /\ out' = [out EXCEPT ![f] = Rejected(Wrote(<<"error:generateTraffic", "query">>, page))]
    /\ UNCHANGED << envVars, engineVars, browserState, closeCalls, pageState,
                    closeTarget, steps, sigVars >>

\* trafficEngine.js:61-63  goto rejected: caught by generateTraffic, logged.
GotoReject(f) ==
    /\ Running
    /\ pc[f] = "goto"
    /\ GenerateTrafficReturns(f, Rejected(Wrote(<<"error:generateTraffic">>, NoHandle)))
    /\ UNCHANGED << envVars, engineVars, browserState, closeCalls, pageState,
                    closeTarget, sigVars >>

\* trafficEngine.js:72-76  page.$$('a') resolved and one of the anchors
\* matches: click() is called on the first match, an element of the queried page.
QueryResolveFound(f) ==
    /\ Running
    /\ pc[f] = "query"
    /\ Find(anchors, domain[f]) # 0
    /\ pc' = [pc EXCEPT ![f] = "click"]
    /\ out' = [out EXCEPT ![f] = [Resolved(Wrote(<<"click">>, out[f].on))
                                   EXCEPT !.clicked = Find(anchors, domain[f])]]
    /\ UNCHANGED << envVars, engineVars, browserState, closeCalls, pageState,
                    domain, closeTarget, steps, sigVars >>

\* The missing target treated as a fault: thrown and logged as an error by
\* clickTargetDomain's catch.
QueryResolveNotFoundThrows(f) ==
    /\ Running
    /\ pc[f] = "query"
    /\ Find(anchors, domain[f]) = 0
    /\ GenerateTrafficReturns(f, Resolved(Wrote(<<"error:clickTargetDomain">>, NoHandle)))
    /\ UNCHANGED << envVars, engineVars, browserState, closeCalls, pageState,
                    closeTarget, sigVars >>

\* trafficEngine.js:72-75 and 82-84  no anchor matches: a warning, no click.
QueryResolveNotFound(f) ==
    /\ Running
    /\ pc[f] = "query"
    /\ Find(anchors, domain[f]) = 0
    /\ GenerateTrafficReturns(f, Resolved(Wrote(<<"warn:notFound">>, NoHandle)))
    /\ UNCHANGED << envVars, engineVars, browserState, closeCalls, pageState,
                    closeTarget, sigVars >>

\* trafficEngine.js:85-87  page.$$ rejected: caught by clickTargetDomain.
QueryReject(f) ==
    /\ Running
    /\ pc[f] = "query"
    /\ GenerateTrafficReturns(f, Rejected(Wrote(<<"error:clickTargetDomain">>, NoHandle)))
    /\ UNCHANGED << envVars, engineVars, browserState, closeCalls, pageState,
                    closeTarget, sigVars >>

\* trafficEngine.js:76-81  the click resolved: the visit is recorded and
\* this.page.waitForNavigation is called.
ClickResolve(f) ==
    /\ Running
    /\ pc[f] = "click"
    /\ pc' = [pc EXCEPT ![f] = "waitForNavigation"]
    /\ out' = [out EXCEPT ![f] = Resolved(Wrote(<<"VISIT", "waitForNavigation">>, page))]
    /\ UNCHANGED << envVars, engineVars, browserState, closeCalls, pageState,
                    domain, closeTarget, steps, sigVars >>

\* The visit recorded before the click is awaited: a failed click leaves it.
ClickRejectVisitLogged(f) ==
    /\ Running
    /\ pc[f] = "click"
    /\ GenerateTrafficReturns(f, Rejected(Wrote(<<"VISIT", "error:clickTargetDomain">>, NoHandle)))
    /\ UNCHANGED << envVars, engineVars, browserState, closeCalls, pageState,
                    closeTarget, sigVars >>

\* trafficEngine.js:85-87  the click rejected.
ClickReject(f) ==
    /\ Running
    /\ pc[f] = "click"
    /\ GenerateTrafficReturns(f, Rejected(Wrote(<<"error:clickTargetDomain">>, NoHandle)))
    /\ UNCHANGED << envVars, engineVars, browserState, closeCalls, pageState,
                    closeTarget, sigVars >>

\* trafficEngine.js:81  the navigation after the click settled.
WaitForNavigationResolve(f) ==
    /\ Running
    /\ pc[f] = "waitForNavigation"
    /\ GenerateTrafficReturns(f, Resolved(Wrote(<<>>, NoHandle)))
    /\ UNCHANGED << envVars, engineVars, browserState, closeCalls, pageState,
                    closeTarget, sigVars >>

\* trafficEngine.js:85-87  waitForNavigation rejected (timeout).
WaitForNavigationReject(f) ==
    /\ Running
    /\ pc[f] = "waitForNavigation"
    /\ GenerateTrafficReturns(f, Rejected(Wrote(<<"error:clickTargetDomain">>, NoHandle)))
    /\ UNCHANGED << envVars, engineVars, browserState, closeCalls, pageState,
                    closeTarget, sigVars >>

\* -------------------------------------------------------------- AdSimulator
\* part_000:28-32  the view gate; `viewAd(adType, viewTime)` is a bare
\* identifier, resolved in the module scope, not a method call on `this`.
ViewStep(r) ==
    IF shouldPerformAction(r, config.viewProbability)
    THEN IF "viewAd" \in AdSimulatorScope
         THEN [gate |-> TRUE, threw |-> FALSE, out |-> <<"AD_VIEW">>]
         ELSE [gate |-> TRUE, threw |-> TRUE, out |-> <<>>]
    ELSE [gate |-> FALSE, threw |-> FALSE, out |-> <<>>]

\* part_000:35-38  the click gate; `clickAd(adType)` likewise.
ClickStep(r) ==
    IF shouldPerformAction(r, config.clickProbability)
    THEN IF "clickAd" \in AdSimulatorScope
         THEN [gate |-> TRUE, threw |-> FALSE, out |-> <<"AD_CLICK">>]
         ELSE [gate |-> TRUE, threw |-> TRUE, out |-> <<>>]
    ELSE [gate |-> FALSE, threw |-> FALSE, out |-> <<>>]

\* part_000:17-42  what one call of simulateAdViews writes, given the two
\* Math.random() draws; a throw inside the try is caught and logged.
simulateAdViews(r1, r2) ==
    IF ~config.adEnabled THEN [out |-> <<"info:adsDisabled">>, gates |-> <<>>]
    ELSE LET v == ViewStep(r1)
             c == ClickStep(r2)
         IN  IF v.threw
             THEN [out |-> <<"error:simulateAdViews">>, gates |-> <<v.gate>>]
             ELSE IF c.threw
             THEN [out |-> v.out \o <<"error:simulateAdViews">>, gates |-> <<v.gate, c.gate>>]
             ELSE [out |-> v.out \o c.out, gates |-> <<v.gate, c.gate>>]

\* The callback with generateTraffic not awaited: simulateAdViews may start
\* while the navigation of the same firing is still pending.
SimulateAdViewsUnawaited(f, r1, r2) ==
    /\ Running
    /\ pc[f] \in {"goto", "genDone"}
    /\ pc' = [pc EXCEPT ![f] = "adsDone"]
    /\ steps' = [steps EXCEPT ![f] = @ \o <<"simulateAdViews:start", "simulateAdViews:end">>]
    /\ out' = [out EXCEPT ![f] = [Wrote(simulateAdViews(r1, r2).out, page)
                                   EXCEPT !.gates = simulateAdViews(r1, r2).gates]]
    /\ UNCHANGED << envVars, engineVars, browserState, closeCalls, pageState,
                    domain, closeTarget, sigVars >>

\* simulateAdViews without its try/catch: a throw of the view or click step
\* rejects the scheduler's await and ends the firing.
SimulateAdViewsRaises(f, r1, r2) ==
    /\ Running
    /\ pc[f] = "genDone"
    /\ IF config.adEnabled /\ (ViewStep(r1).threw \/ ClickStep(r2).threw)
       THEN /\ pc' = [pc EXCEPT ![f] = "aborted"]
            /\ steps' = [steps EXCEPT ![f] = @ \o <<"simulateAdViews:start", "simulateAdViews:throw">>]
            /\ out' = [out EXCEPT ![f] = Wrote(<<>>, page)]
       ELSE /\ pc' = [pc EXCEPT ![f] = "adsDone"]
            /\ steps' = [steps EXCEPT ![f] = @ \o <<"simulateAdViews:start", "simulateAdViews:end">>]
            /\ out' = [out EXCEPT ![f] = [Wrote(simulateAdViews(r1, r2).out, page)
                                           EXCEPT !.gates = simulateAdViews(r1, r2).gates]]
    /\ UNCHANGED << envVars, engineVars, browserState, closeCalls, pageState,
                    domain, closeTarget, sigVars >>

\* scheduler.js:26-27  generateTraffic's await resumes; simulateAdViews runs
\* on this.trafficEngine.page and returns.
SimulateAdViews(f, r1, r2) ==
    /\ Running
    /\ pc[f] = "genDone"
    /\ pc' = [pc EXCEPT ![f] = "adsDone"]
    /\ steps' = [steps EXCEPT ![f] = @ \o <<"simulateAdViews:start", "simulateAdViews:end">>]
    /\ out' = [out EXCEPT ![f] = [Wrote(simulateAdViews(r1, r2).out, page)
                                   EXCEPT !.gates = simulateAdViews(r1, r2).gates]]
    /\ UNCHANGED << envVars, engineVars, browserState, closeCalls, pageState,
                    domain, closeTarget, sigVars >>

\* ------------------------------------------------ TrafficEngine.closeBrowser
\* scheduler.js:27-28 and trafficEngine.js:40-45  simulateAdViews' await
\* resumes; closeBrowser calls this.browser.close() if this.browser is set.
CloseBrowserCall(f) ==
    /\ Running
    /\ pc[f] = "adsDone"
    /\ IF browser # NoHandle
       THEN /\ closeCalls' = [closeCalls EXCEPT ![browser] = @ + 1]
            /\ closeTarget' = [closeTarget EXCEPT ![f] = browser]
            /\ pc' = [pc EXCEPT ![f] = "close"]
            /\ steps' = [steps EXCEPT ![f] = Append(@, "closeBrowser:start")]
            /\ out' = [out EXCEPT ![f] = Wrote(<<"close">>, browser)]
       ELSE /\ pc' = [pc EXCEPT ![f] = "done"]
            /\ steps' = [steps EXCEPT ![f] = @ \o <<"closeBrowser:start", "closeBrowser:end">>]
            /\ out' = [out EXCEPT ![f] = Nothing]
            /\ UNCHANGED << closeCalls, closeTarget >>
    /\ UNCHANGED << envVars, engineVars, browserState, pageState, domain, sigVars >>

\* trafficEngine.js:42-43  close() resolved; this.browser is left as it is.
CloseResolve(f) ==
    /\ Running
    /\ pc[f] = "close"
    /\ browserState' = [browserState EXCEPT ![closeTarget[f]] = "closed"]
    /\ closeTarget' = [closeTarget EXCEPT ![f] = NoHandle]
    /\ pc' = [pc EXCEPT ![f] = "done"]
    /\ steps' = [steps EXCEPT ![f] = Append(@, "closeBrowser:end")]
    /\ out' = [out EXCEPT ![f] = Resolved(Wrote(<<"info:closed">>, NoHandle))]
    /\ UNCHANGED << envVars, engineVars, closeCalls, pageState, domain, sigVars >>

\* trafficEngine.js:42  close() rejected: closeBrowser has no catch, neither
\* has the cron callback.
CloseReject(f) ==
    /\ Running
    /\ pc[f] = "close"
    /\ closeTarget' = [closeTarget EXCEPT ![f] = NoHandle]
    /\ pc' = [pc EXCEPT ![f] = "aborted"]
    /\ steps' = [steps EXCEPT ![f] = Append(@, "closeBrowser:throw")]
    /\ out' = [out EXCEPT ![f] = Rejected(Nothing)]
    /\ UNCHANGED << envVars, engineVars, browserState, closeCalls, pageState,
                    domain, sigVars >>

\* One step of the cron callback of firing f.
FiringStep(f) ==
    \/ CronTick(f)
    \/ LaunchResolve(f)
    \/ LaunchReject(f)
    \/ NewPageResolve(f)
    \/ NewPageReject(f)
    \/ SetupStepResolve(f)
    \/ SetupProfileResolve(f)
    \/ SetupStepReject(f)
    \/ GenerateTrafficCall(f)
    \/ \E d \in 1..Len(targetDomains) : GotoResolve(f, d)
    \/ GotoReject(f)
    \/ QueryResolveFound(f)
    \/ QueryResolveNotFound(f)
    \/ QueryReject(f)
    \/ ClickResolve(f)
    \/ ClickReject(f)
    \/ WaitForNavigationResolve(f)
    \/ WaitForNavigationReject(f)
    \/ \E r1, r2 \in 0..(ProbScale - 1) : SimulateAdViews(f, r1, r2)
    \/ CloseBrowserCall(f)
    \/ CloseResolve(f)
    \/ CloseReject(f)

\* ------------------------------------------------------------------ index.js
\* index.js:16-19  SIGINT: closeBrowser() on the scheduler's engine, then exit.
Sigint ==
    /\ shutdown = "running"
    /\ sigHeld' = (browser # NoHandle /\ browserState[browser] = "open")
    /\ IF browser # NoHandle
       THEN /\ closeCalls' = [closeCalls EXCEPT ![browser] = @ + 1]
            /\ sigCalls' = sigCalls + 1
            /\ shutdown' = "closing"
       ELSE /\ shutdown' = "exited"
            /\ UNCHANGED << closeCalls, sigCalls >>
    /\ UNCHANGED << envVars, engineVars, browserState, pageState, pc, domain,
                    closeTarget, steps, out >>

\* index.js:18-19  the handler's close() resolved: process.exit().
SigintCloseResolve ==
    /\ shutdown = "closing"
    /\ browserState' = [browserState EXCEPT ![browser] = "closed"]
    /\ shutdown' = "exited"
    /\ UNCHANGED << envVars, engineVars, closeCalls, pageState, pc, domain,
                    closeTarget, steps, out, sigHeld, sigCalls >>

\* index.js:18  the handler's close() rejected: the handler's promise rejects
\* unhandled and process.exit() is never reached.
SigintCloseReject ==
    /\ shutdown = "closing"
    /\ shutdown' = "crashed"
    /\ UNCHANGED << envVars, engineVars, browserState, closeCalls, pageState, pc,
                    domain, closeTarget, steps, out, sigHeld, sigCalls >>

SignalStep == Sigint \/ SigintCloseResolve \/ SigintCloseReject

\* The whole process: any number of firings in flight together.
Next == (\E f \in Firings : FiringStep(f)) \/ SignalStep

\* One firing alone.
NextSingle == FiringStep(1) \/ SignalStep

Spec == Init /\ [][Next]_vars
SpecConfigs == InitConfigs /\ [][NextSingle]_vars

\* The registered trigger against the clock of one day.
NextCron == ClockTick
SpecCron == InitCron /\ [][NextCron]_vars

\* Calls of the random helpers of utilities.js, one after another.
NextUtil ==
    \/ \E ws \in WeightLists, r \in Draws : CallWeightedRandom(ws, r)
    \/ \E lo, hi \in Bounds, r \in Draws : CallGetRandomInt(lo, hi, r)
    \/ \E lo, hi \in Bounds, r \in Draws : CallGetRandomFloat(lo, hi, r)
SpecUtil == InitUtil /\ [][NextUtil]_vars

\* Calls of the pointer and scroll synthesis, one after another.
NextMotion ==
    \/ \E x, y \in Coords : MouseMovementCall(x, y)
    \/ PathMoveResolve
    \/ PathMoveReject
    \/ PathDelayResolve
    \/ DirectResolve
    \/ DirectReject
    \/ \E d \in Distances : ScrollingCall(d)
    \/ ChunkScrollResolve
    \/ ChunkScrollReject
    \/ ScrollDelayResolve
SpecMotion == InitMotion /\ [][NextMotion]_vars

\* One path built from drawn inputs.
NextBezier ==
    \/ MouseMovementPath
    \/ \E n \in StepCounts : GenerateBezierCurveCall(n)
SpecBezier == InitBezier /\ [][NextBezier]_vars

\* ==================================================================== claims
Count(seq, x) == Cardinality({ i \in 1..Len(seq) : seq[i] = x })
Last(seq) == seq[Len(seq)]

\* The four steps of the cron callback, scheduler.js:25-28, in source order.
StepOrder ==
    << "launchBrowser:start", "launchBrowser:end",
       "generateTraffic:start", "generateTraffic:end",
       "simulateAdViews:start", "simulateAdViews:end",
       "closeBrowser:start", "closeBrowser:end" >>
\* What stands in a step's place when it ends by throwing.
ThrowAt(i) ==
    CASE StepOrder[i] = "launchBrowser:end" -> "launchBrowser:throw"
      [] StepOrder[i] = "closeBrowser:end" -> "closeBrowser:throw"
      [] OTHER -> StepOrder[i]

\* C1: within every firing the steps start and end in the order
\* launchBrowser, generateTraffic, simulateAdViews, closeBrowser, each one
\* starting only after the one before it has ended; a step that throws is the
\* last thing the firing does.
C1_StepsInOrder ==
    \A f \in Firings :
        /\ Len(steps[f]) <= Len(StepOrder)
        /\ \A i \in 1..Len(steps[f]) :
            \/ steps[f][i] = StepOrder[i]
            \/ i = Len(steps[f]) /\ steps[f][i] = ThrowAt(i)

\* Two firings in flight at once, one of which has run all four steps.
C1_Witness ==
    \E f, g \in Firings :
        /\ steps[f] = StepOrder
        /\ g # f
        /\ pc[g] \notin {"idle", "done", "aborted"}

Ended(f) == pc[f] \in {"done", "aborted"}
Launched(b) == browserState[b] # "none"

\* C2: a firing that launched a browser has, once it has completed (normally
\* or by a failure), issued a release call on that browser.
C2_LaunchedBrowserReleased ==
    \A f \in Firings : (Ended(f) /\ Launched(f)) => closeCalls[f] >= 1

\* C3: closeBrowser is idempotent: no step issues a release call on a browser
\* whose release has already completed (two calls on one browser have no
\* launch between them, since a successful launch replaces this.browser).
C3_NoReleaseOfReleased ==
    [][\A b \in Firings :
          browserState[b] = "closed" => closeCalls'[b] = closeCalls[b]]_vars

\* C4: on the termination signal the handler issues exactly one release call
\* if the engine holds a browser that is still open, and none if it holds
\* none or the one it holds has already been released.
C4_SignalReleasesWhatIsHeld ==
    shutdown # "running" => sigCalls = (IF sigHeld THEN 1 ELSE 0)

\* C5: every call a firing issues on a browser or page, and the page it hands
\* to the engagement simulator, goes to the browser and page that firing
\* acquired itself.
C5_OwnHandlesOnly ==
    \A f \in Firings : out[f].on \in {NoHandle, f}

\* C6: at most one session is active: never two launched browsers unreleased.
C6_AtMostOneSession ==
    Cardinality({ b \in Firings : browserState[b] = "open" }) <= 1

\* The awaits inside generateTraffic / clickTargetDomain.
SessionSteps == {"goto", "query", "click", "waitForNavigation"}
Stepped(f) == out'[f] # out[f] \/ pc'[f] # pc[f]

\* C7: when an awaited session step of generateTraffic rejects, the failure
\* is logged and generateTraffic returns normally; from there the firing's
\* next step is simulateAdViews and the one after it closeBrowser.
C7_StepFailureContained ==
    [][\A f \in Firings :
          /\ (pc[f] \in SessionSteps /\ Stepped(f) /\ out'[f].settled = "reject")
                => /\ pc'[f] = "genDone"
                   /\ Last(steps'[f]) = "generateTraffic:end"
                   /\ out'[f].entries \in { <<"error:generateTraffic">>,
                                            <<"error:clickTargetDomain">> }
          /\ (pc[f] = "genDone" /\ Stepped(f))
                => /\ pc'[f] = "adsDone"
                   /\ Last(steps'[f]) = "simulateAdViews:end"
          /\ (pc[f] = "adsDone" /\ Stepped(f))
                => /\ pc'[f] = "close"
                   /\ out'[f].entries = <<"close">>
                   /\ closeCalls'[out'[f].on] = closeCalls[out'[f].on] + 1]_vars

\* A session step has just failed in one firing while another is in flight.
C7_Witness ==
    \E f, g \in Firings :
        /\ pc[f] = "genDone"
        /\ out[f].settled = "reject"
        /\ g # f
        /\ pc[g] \in SessionSteps

\* C8: every navigation, anchor query, click, navigation wait and engagement
\* simulation is done on a page whose identity configuration has completed,
\* and a firing whose launch failed does none of them.
C8_ConfiguredIdentityOnly ==
    \A f \in Firings :
        /\ (pc[f] \in SessionSteps \cup {"adsDone"})
              => (out[f].on # NoHandle /\ pageState[out[f].on] = "configured")
        /\ Last(<<"">> \o steps[f]) = "launchBrowser:throw" => pc[f] = "aborted"

NoAnchorFor(d) == \A i \in 1..Len(anchors) : ~Includes(anchors[i], d)

\* C9: when the anchor query resolves on a result page none of whose anchors
\* contains the chosen target domain, the session ends normally: a warning and
\* nothing else is written (no click, no visit record, no error) and
\* generateTraffic returns; a visit record is only ever written by the step
\* that follows a click.
C9_TargetNotFoundCompletes ==
    [][\A f \in Firings :
          /\ (/\ pc[f] = "query" /\ Stepped(f)
              /\ out'[f].settled = "resolve" /\ NoAnchorFor(domain[f]))
                => /\ out'[f].entries = <<"warn:notFound">>
                   /\ out'[f].clicked = 0
                   /\ pc'[f] = "genDone"
                   /\ Last(steps'[f]) = "generateTraffic:end"
          /\ (Stepped(f) /\ Count(out'[f].entries, "VISIT") > 0) => pc[f] = "click"
          /\ (Stepped(f) /\ pc'[f] = "click") => pc[f] = "query"
          /\ (Stepped(f) /\ pc'[f] = "query") => pc[f] = "goto"]_vars

\* The result page has anchors, none for the chosen domain, and the session
\* has ended with the warning.
C9_Witness ==
    \E f \in Firings :
        /\ pc[f] = "genDone"
        /\ out[f].entries = <<"warn:notFound">>
        /\ Len(anchors) = MaxLinks

\* C10: with ad simulation enabled, viewProbability = 1 and
\* clickProbability = 0, every call of simulateAdViews writes exactly one
\* ad-view record and no ad-click record.
C10_OneViewNoClick ==
    \A f \in Firings :
        (/\ pc[f] = "adsDone" /\ config.adEnabled
         /\ config.viewProbability = ProbScale /\ config.clickProbability = 0)
            => /\ Count(out[f].entries, "AD_VIEW") = 1
               /\ Count(out[f].entries, "AD_CLICK") = 0

\* C11: the click decision of simulateAdViews does not depend on the view
\* decision: every call with ad simulation enabled evaluates both gates, and
\* writes an ad-click record exactly when the click gate passed, whatever the
\* view gate and the view step did.
C11_ClickIndependentOfView ==
    \A f \in Firings :
        (pc[f] = "adsDone" /\ config.adEnabled)
            => /\ Len(out[f].gates) = 2
               /\ Count(out[f].entries, "AD_CLICK") = (IF out[f].gates[2] THEN 1 ELSE 0)

\* C12: no exception raised inside the engagement simulator reaches the
\* scheduler: the call of simulateAdViews always returns normally, also when
\* its view or click step threw, and the firing's next step is the release
\* call of closeBrowser.
C12_AdExceptionsContained ==
    [][\A f \in Firings :
          /\ (pc[f] = "genDone" /\ Stepped(f))
                => /\ pc'[f] = "adsDone"
                   /\ steps'[f] = steps[f] \o <<"simulateAdViews:start", "simulateAdViews:end">>
                   /\ out'[f].settled = ""
          /\ (pc[f] = "adsDone" /\ Has(f, "error:simulateAdViews") /\ Stepped(f))
                => /\ pc'[f] = "close"
                   /\ Last(steps'[f]) = "closeBrowser:start"
                   /\ closeCalls'[browser] = closeCalls[browser] + 1]_vars

\* An exception was raised inside simulateAdViews, which has returned.
C12_Witness ==
    \E f \in Firings :
        /\ pc[f] = "adsDone"
        /\ Has(f, "error:simulateAdViews")
        /\ Last(steps[f]) = "simulateAdViews:end"

\* C13: when the process has exited on the termination signal, no launched
\* browser is left unreleased.
C13_ExitLeavesNoBrowser ==
    shutdown = "exited" => \A b \in Firings : browserState[b] # "open"

\* C15: with scheduling disabled no trigger is registered: no firing ever
\* starts, no browser is launched and nothing is recorded.
C15_DisabledNeverFires ==
    ~config.schedEnabled
        => \A f \in Firings :
              /\ pc[f] = "idle"
              /\ steps[f] = <<>>
              /\ out[f] = Nothing
              /\ browserState[f] = "none"
              /\ closeCalls[f] = 0

\* Scheduling is disabled and the process has run until its termination.
C15_Witness ==
    ~config.schedEnabled /\ config.adEnabled /\ shutdown = "exited"

\* The awaits of the cron callback in source order; a firing only moves forward.
PcOrder ==
    << "idle", "launch", "newPage", "setUserAgent", "setExtraHTTPHeaders",
       "evaluateOnNewDocument", "launched", "goto", "query", "click",
       "waitForNavigation", "genDone", "adsDone", "close", "done", "aborted" >>
Rank(p) == CHOOSE i \in 1..Len(PcOrder) : PcOrder[i] = p

\* C19: a visit record is written only by the step in which the click
\* resolved, the click having been issued on the first anchor whose
\* destination contains the chosen target domain; it is written once, before
\* waitForNavigation is called; a rejected click writes none, and a firing
\* passes through the click at most once.
C19_VisitAfterClickBeforeWait ==
    [][\A f \in Firings :
          /\ (Stepped(f) /\ Count(out'[f].entries, "VISIT") > 0)
                => /\ pc[f] = "click"
                   /\ out'[f].settled = "resolve"
                   /\ out[f].clicked = Find(anchors, domain[f])
                   /\ out[f].clicked \in 1..Len(anchors)
                   /\ Includes(anchors[out[f].clicked], domain[f])
                   /\ \A j \in 1..(out[f].clicked - 1) : ~Includes(anchors[j], domain[f])
                   /\ out'[f].entries = <<"VISIT", "waitForNavigation">>
                   /\ pc'[f] = "waitForNavigation"
          /\ (pc[f] = "click" /\ Stepped(f) /\ out'[f].settled = "reject")
                => /\ Count(out'[f].entries, "VISIT") = 0
                   /\ pc'[f] = "genDone"
          /\ (pc[f] = "waitForNavigation" /\ Stepped(f))
                => /\ Has(f, "VISIT")
                   /\ pc'[f] = "genDone"
          /\ pc'[f] # pc[f] => Rank(pc'[f]) > Rank(pc[f])]_vars

\* The visit has been recorded for a click on the second anchor, the first
\* one not leading to the target, and the navigation wait is pending.
C19_Witness ==
    \E f \in Firings :
        /\ pc[f] = "waitForNavigation"
        /\ Has(f, "VISIT")
        /\ Find(anchors, domain[f]) = 2

\* C20: the search record is written exactly by the step in which the search
\* navigation resolved; the target domain is chosen and the anchors are
\* queried only in and after that step; when the navigation rejects, no search
\* record is written and the session ends without query, click or visit.
C20_SearchRecordOnSuccess ==
    [][\A f \in Firings :
          /\ (pc[f] = "goto" /\ Stepped(f) /\ out'[f].settled = "resolve")
                => /\ out'[f].entries = <<"SEARCH", "query">>
                   /\ pc'[f] = "query"
          /\ (pc[f] = "goto" /\ Stepped(f) /\ out'[f].settled = "reject")
                => /\ out'[f].entries = <<"error:generateTraffic">>
                   /\ pc'[f] = "genDone"
                   /\ domain'[f] = <<>>
          /\ (Stepped(f) /\ Count(out'[f].entries, "SEARCH") > 0)
                => (pc[f] = "goto" /\ out'[f].settled = "resolve")
          /\ (Stepped(f) /\ pc'[f] = "query")
                => (pc[f] = "goto" /\ Has(f, "goto") /\ Count(out'[f].entries, "SEARCH") = 1)
          /\ domain'[f] # <<>> => pc'[f] \in {"query", "click", "waitForNavigation"}
          /\ (Stepped(f) /\ pc[f] = "genDone")
                => (pc'[f] = "adsDone" /\ Count(out'[f].entries, "VISIT") = 0)]_vars

\* The search navigation of the single firing has failed.
C20_Witness ==
    /\ pc[1] = "genDone"
    /\ out[1].entries = <<"error:generateTraffic">>
    /\ Len(anchors) > 0

\* C14: for every configured start and end time in HH:MM form the trigger
\* fires exactly at second 0 of the start time's minute in every hour from
\* the start hour through the end hour inclusive, on every day, and at no
\* other instant; the end time's minute plays no part.
C14_FiresHourlyAtStartMinute ==
    fired = (/\ clock.s = 0
             /\ clock.m = schedule.startM
             /\ schedule.startH <= clock.h
             /\ clock.h <= schedule.endH)

\* The trigger fires in the end hour, a two-digit one, for a window that
\* starts in a one-digit hour and whose end minute is not the start minute.
C14_Witness ==
    /\ fired
    /\ clock.h = schedule.endH
    /\ schedule.startH < 10
    /\ schedule.endH >= 10
    /\ schedule.endM # schedule.startM

\* C16: weightedRandom never returns an option of weight zero while some
\* weight is positive, whatever the draw (so {A:0,B:0,C:1} always gives C);
\* with all weights zero it returns the first declared option.
C16_ZeroWeightNeverChosen ==
    call.fn = "weightedRandom"
        => /\ Sum(call.options) > 0 => call.options[result.num] > 0
           /\ Sum(call.options) = 0 => result.num = 1
           /\ call.options = <<0, 0, 1>> => result.num = 3

\* C17: for min <= max and every draw, getRandomInt and getRandomFloat return
\* a value x with min <= x <= max, min and max as the caller passed them.
C17_DrawWithinBounds ==
    call.fn \in {"getRandomInt", "getRandomFloat"}
        => /\ call.min * result.den <= result.num * BoundScale
           /\ result.num * BoundScale <= call.max * result.den

\* C18: when pointer or scroll synthesis has failed part-way, the call ends
\* by returning normally, and the last call it issued on the page is the
\* disabled-mode direct action: one direct move to the target, respectively
\* one direct scroll of the requested distance.
C18_FallbackToDirectAction ==
    (motion.failed /\ Finished)
        => /\ motion.at = "returned"
           /\ Len(surface) > 0
           /\ Last(surface) = (IF motion.fn = "mouse" THEN Move(motion.x, motion.y)
                                                     ELSE Scroll(motion.distance))

\* C21: the termination signal does not cut an in-flight session step short:
\* the handler issues its release call on the browser only when no firing is
\* suspended at a navigation, query, click or navigation wait.
C21_ShutdownWaitsForStep ==
    [][sigCalls' > sigCalls => \A f \in Firings : pc[f] \notin SessionSteps]_vars

\* The least number of chunks of ScrollChunk pixels that cover the distance.
ChunksNeeded(distance) ==
    CHOOSE n \in 0..Abs(distance) :
        /\ n * ScrollChunk >= Abs(distance)
        /\ \A k \in 0..(n - 1) : k * ScrollChunk < Abs(distance)

\* C22: a call of simulateHumanScrolling(distance) that ran to its end has,
\* with random scrolling enabled, issued exactly ceil(|distance| / 100) scroll
\* calls, each of the signed size distance / chunks, so that the sizes sum to
\* distance (no call at all for distance 0); with random scrolling disabled
\* it has issued exactly one scroll call, of size distance.
C22_ScrollInEqualChunks ==
    (motion.fn = "scroll" /\ motion.at = "returned" /\ ~motion.failed)
        => IF antiDetection.enableRandomScrolling
           THEN /\ Len(surface) = ChunksNeeded(motion.distance)
                /\ \A i \in 1..Len(surface) :
                      /\ surface[i].op = "scroll"
                      /\ surface[i].a = motion.distance
                      /\ surface[i].b = Len(surface)
           ELSE surface = << Scroll(motion.distance) >>

\* An upward scroll that needed three chunks of a fractional size has run to
\* its end.
C22_Witness ==
    /\ motion.fn = "scroll"
    /\ motion.at = "returned"
    /\ ~motion.failed
    /\ antiDetection.enableRandomScrolling
    /\ motion.distance < 0
    /\ Len(surface) = 3
    /\ motion.distance % 3 # 0

\* C23: for every start, end and control-point offsets the path has one
\* point per i in 0..steps, its first point is the start exactly and its last
\* point the end exactly; the step count simulateHumanMouseMovement uses is
\* max(10, floor(distance / 10)) for the distance from its start to the
\* target, which is 10 for start (0, 0) and end (100, 0).
C23_PathEndpointsAndSteps ==
    curve.by # "none"
        => /\ Len(curve.points) = curve.steps + 1
           /\ curve.points[1].x = curve.startX * curve.points[1].den
           /\ curve.points[1].y = curve.startY * curve.points[1].den
           /\ Last(curve.points).x = curve.endX * Last(curve.points).den
           /\ Last(curve.points).y = curve.endY * Last(curve.points).den
           /\ curve.by = "simulateHumanMouseMovement"
                 => LET d2 == (curve.endX - curve.startX) * (curve.endX - curve.startX)
                                + (curve.endY - curve.startY) * (curve.endY - curve.startY)
                    IN  /\ curve.steps >= 10
                        /\ curve.steps > 10 => 100 * curve.steps * curve.steps <= d2
                        /\ d2 < 100 * (curve.steps + 1) * (curve.steps + 1)
                        /\ (curve.endX = 100 /\ curve.endY = 0) => curve.steps = 10

\* The path to (100, 0) built by simulateHumanMouseMovement with the largest
\* offsets in opposite directions.
C23_Witness ==
    /\ curve.by = "simulateHumanMouseMovement"
    /\ curve.endX = 100
    /\ curve.endY = 0
    /\ curve.steps = 10
    /\ bezierIn.j = << JitterRange, -JitterRange, -JitterRange, JitterRange >>

====
